---- MODULE Spec2Model ----
(***************************************************************************)
(* A model of spender/model.py: the dense block (MLP), the attention       *)
(* pooling SpectrumEncoder, the redshift/instrument aware SpectrumDecoder  *)
(* and the BaseAutoencoder / SpectrumAutoencoder composition.              *)
(*                                                                         *)
(* Python values are tagged records: None is [tag |-> "None"], False is    *)
(* [tag |-> "False"], a number z is [tag |-> "num", v |-> z].  A call      *)
(* either returns, Ok(v), or raises, Raise(exc, at).  Tensors are batches: *)
(* a sequence of samples, each a sequence of integers.  The arithmetic of  *)
(* the torch layers (convolutions, affine layers) is replaced by fixed     *)
(* deterministic integer maps (Affine, Pool); shapes are kept exactly.     *)
(***************************************************************************)
EXTENDS Integers, Sequences, FiniteSets

VARIABLES
    encoder,       \* a stand-alone SpectrumEncoder (self), or None
    decoder,       \* a stand-alone SpectrumDecoder (self), or None
    model,         \* a BaseAutoencoder (self), or None
    grad_enabled,  \* torch's autograd mode: does the attention tensor require grad
    graph,         \* the attention tensor `a` of the last encoder forward, or None
    call,          \* the call in progress or just returned: its name and arguments
    ret,           \* its outcome: Ok(value) or Raise(exception, place)
    calls,         \* what the call invoked or created, in order
    pc             \* "idle": the caller may call; "returned": it holds an outcome

vars == <<encoder, decoder, model, grad_enabled, graph, call, ret, calls, pc>>

----------------------------------------------------------------------------
(* Python values *)

None == [tag |-> "None"]
PyFalse == [tag |-> "False"]
Num(v) == [tag |-> "num", v |-> v]
List(l) == [tag |-> "list", val |-> l]
IsNone(o) == o.tag = "None"

Ok(v) == [tag |-> "ok", val |-> v]
Raise(exc, at) == [tag |-> "raise", exc |-> exc, at |-> at]

NoCall == [op |-> "none"]

\* F of the value v, v computed once.
Bind(v, F(_)) == F(v)

\* The sum of a sequence, by halves (a dense block's input has 256 entries).
RECURSIVE SumSeq(_)
SumSeq(s) ==
    IF Len(s) = 0 THEN 0
    ELSE IF Len(s) = 1 THEN s[1]
    ELSE LET m == Len(s) \div 2
         IN  SumSeq(SubSeq(s, 1, m)) + SumSeq(SubSeq(s, m + 1, Len(s)))

RECURSIVE SeqsUpTo(_, _)
SeqsUpTo(S, n) ==
    IF n = 0 THEN {<<>>}
    ELSE LET shorter == SeqsUpTo(S, n - 1)
         IN  shorter \cup {Append(s, e) : s \in shorter, e \in S}

----------------------------------------------------------------------------
(* Bounds of the model *)

MaxHidden == 2          \* longest n_hidden tried for a dense block
MaxWidth == 2           \* widest layer tried for a dense block
MaxLatent == 2          \* largest n_latent
MaxAux == 1             \* largest n_aux

----------------------------------------------------------------------------
(* MLP *)

Linear(n_in, n_out) == [kind |-> "Linear", n_in |-> n_in, n_out |-> n_out]
Activation(name) == [kind |-> "act", name |-> name]
Dropout(p) == [kind |-> "Dropout", p |-> p]

\* The loop of MLP.__init__ from index i (1-based) on: the local list `layer`
\* it builds, and whether it ran through (act[i] raises IndexError past the
\* end of act, after the affine layer of that round was appended).
RECURSIVE MLP_loop(_, _, _, _)
MLP_loop(n_, act, dropout, i) ==
    IF i > Len(n_) - 1 THEN [layer |-> <<>>, ok |-> TRUE]
    ELSE IF i > Len(act) THEN [layer |-> <<Linear(n_[i], n_[i + 1])>>, ok |-> FALSE]
    ELSE LET rest == MLP_loop(n_, act, dropout, i + 1)
         IN  [layer |-> <<Linear(n_[i], n_[i + 1]), Activation(act[i]), Dropout(dropout)>>
                            \o rest.layer,
              ok |-> rest.ok]

MLP_default_act(n_hidden) == [i \in 1..(Len(n_hidden) + 1) |-> "LeakyReLU"]

\* A plausible slip: the length check is made after the layers are built.
MLP_init_late_assert(n_in, n_out, n_hidden, act, dropout) ==
    LET act1 == IF IsNone(act) THEN MLP_default_act(n_hidden) ELSE act.val
        n_ == <<n_in>> \o n_hidden \o <<n_out>>
        b == MLP_loop(n_, act1, dropout, 1)
    IN  IF ~b.ok
        THEN [out |-> Raise("IndexError", "MLP.__init__"), layer |-> b.layer]
        ELSE IF Len(act1) # Len(n_hidden) + 1
        THEN [out |-> Raise("AssertionError", "MLP.__init__"), layer |-> b.layer]
        ELSE [out |-> Ok([tag |-> "MLP", n_in |-> n_in, n_out |-> n_out,
                          layer |-> b.layer]),
              layer |-> b.layer]

\* MLP.__init__: out is the outcome, layer the local list `layer` when it ends.
MLP_init(n_in, n_out, n_hidden, act, dropout) ==
    LET act1 == IF IsNone(act) THEN MLP_default_act(n_hidden) ELSE act.val
    IN  IF Len(act1) # Len(n_hidden) + 1
        THEN [out |-> Raise("AssertionError", "MLP.__init__"), layer |-> <<>>]
        ELSE LET n_ == <<n_in>> \o n_hidden \o <<n_out>>
                 b == MLP_loop(n_, act1, dropout, 1)
             IN  IF b.ok
                 THEN [out |-> Ok([tag |-> "MLP", n_in |-> n_in, n_out |-> n_out,
                                   layer |-> b.layer]),
                       layer |-> b.layer]
                 ELSE [out |-> Raise("IndexError", "MLP.__init__"), layer |-> b.layer]

\* The stand-in for the arithmetic of the stacked affine layers: a fixed
\* affine map of the input onto n_out values (even, so that the linear
\* interpolation below is exact).
Affine(n_out, v) == [j \in 1..n_out |-> 2 * (j + SumSeq(v))]

\* nn.Sequential.forward on one sample: the first affine layer rejects an
\* input of the wrong width.
MLP_forward(mlp, v) ==
    IF Len(v) # mlp.n_in
    THEN Raise("RuntimeError", "nn.Linear")
    ELSE Ok(Affine(mlp.n_out, v))

----------------------------------------------------------------------------
(* The caller *)

Init ==
    /\ encoder = None
    /\ decoder = None
    /\ model = None
    /\ grad_enabled = TRUE
    /\ graph = None
    /\ call = NoCall
    /\ ret = None
    /\ calls = <<>>
    /\ pc = "idle"

\* The caller takes the outcome of the call; the next call may start.
Return ==
    /\ pc = "returned"
    /\ pc' = "idle"
    /\ call' = NoCall
    /\ ret' = None
    /\ calls' = <<>>
    /\ UNCHANGED <<encoder, decoder, model, grad_enabled, graph>>

----------------------------------------------------------------------------
(* Specification of the dense block alone *)

Widths == 1..MaxWidth
HiddenLists == SeqsUpTo(Widths, MaxHidden)
ActNames == {"LeakyReLU", "Identity"}
ActLists == {None} \cup {List(l) : l \in SeqsUpTo(ActNames, MaxHidden + 2)}

NewMLP ==
    /\ pc = "idle"
    /\ \E n_in \in Widths, n_out \in Widths, n_hidden \in HiddenLists, act \in ActLists :
         \E r \in {MLP_init(n_in, n_out, n_hidden, act, 0)} :
             /\ call' = [op |-> "MLP.__init__", n_in |-> n_in, n_out |-> n_out,
                         n_hidden |-> n_hidden, act |-> act]
             /\ ret' = r.out
             /\ calls' = r.layer
    /\ pc' = "returned"
    /\ UNCHANGED <<encoder, decoder, model, grad_enabled, graph>>

NextMLP == NewMLP \/ Return

SpecMLP == Init /\ [][NextMLP]_vars

\* C9: constructing a dense block with an explicit nonlinearity list whose
\* length is not len(n_hidden) + 1 fails before any layer is created; with a
\* matching list, or none, it succeeds and yields len(n_hidden) + 1 groups
\* affine layer, nonlinearity, dropout, of widths n_in, n_hidden..., n_out.
C9_DenseBlockContract ==
    (pc = "returned" /\ call.op = "MLP.__init__") =>
        LET n_ == <<call.n_in>> \o call.n_hidden \o <<call.n_out>>
            k == Len(call.n_hidden) + 1
        IN  IF ~IsNone(call.act) /\ Len(call.act.val) # k
            THEN ret.tag = "raise" /\ calls = <<>>
            ELSE /\ ret.tag = "ok"
                 /\ Len(ret.val.layer) = 3 * k
                 /\ \A g \in 1..k :
                      /\ ret.val.layer[3 * g - 2] = Linear(n_[g], n_[g + 1])
                      /\ ret.val.layer[3 * g - 1] =
                           Activation(IF IsNone(call.act) THEN "LeakyReLU"
                                      ELSE call.act.val[g])
                      /\ ret.val.layer[3 * g] = Dropout(0)

\* A list one short of the two hidden layers' three nonlinearities was refused.
C9_Witness ==
    /\ pc = "returned" /\ call.op = "MLP.__init__"
    /\ ~IsNone(call.act)
    /\ Len(call.n_hidden) = 2 /\ Len(call.act.val) = 2
    /\ ret.tag = "raise" /\ calls = <<>>

----------------------------------------------------------------------------
(* Instruments: the external collaborator of the decoder *)

MaxZ == 1               \* largest redshift tried

WaveRest == <<1, 2, 3>>
ObsGrids == {<<2, 4, 6>>, <<2, 3, 4>>}
LsfKernel == <<1, 2, 1>>

Lsf == [tag |-> "lsf", kernel |-> LsfKernel]
Calibration == [tag |-> "calibration"]

Instruments ==
    {[tag |-> "Instrument", wave_obs |-> g, lsf |-> l, calibration |-> c] :
        g \in ObsGrids, l \in {None, Lsf}, c \in {None, Calibration}}

\* instrument.lsf(spectrum.unsqueeze(1)).squeeze(1) on one sample: a 1-D
\* convolution with the kernel, zero padded to keep the length.
lsf(kernel, s) ==
    LET half == Len(kernel) \div 2
        at(i) == IF i \in 1..Len(s) THEN s[i] ELSE 0
    IN  [i \in 1..Len(s) |->
            SumSeq([k \in 1..Len(kernel) |-> kernel[k] * at(i + k - 1 - half)])]

\* instrument.calibration(wave_obs, spectrum) on one sample: a wavelength
\* dependent gain and an offset.
calibration(wave_obs, s) == [i \in 1..Len(s) |-> s[i] * wave_obs[i] + 1]

----------------------------------------------------------------------------
(* SpectrumDecoder *)

\* torch.searchsorted(x, v): how many knots lie strictly below v.
searchsorted(x, v) == Cardinality({i \in 1..Len(x) : x[i] < v})

clamp(i, lo, hi) == IF i < lo THEN lo ELSE IF i > hi THEN hi ELSE i

\* Interp1d()(x, y, xnew) on one sample: linear interpolation between the two
\* knots around each new point, the first or last segment extended outside.
Interp1d(x, y, xnew) ==
    [n \in 1..Len(xnew) |->
        LET ind == clamp(searchsorted(x, xnew[n]) - 1, 0, Len(x) - 2) + 1
        IN  y[ind] + ((y[ind + 1] - y[ind]) * (xnew[n] - x[ind]))
                        \div (x[ind + 1] - x[ind])]

SpectrumDecoder_init(wave_rest, n_latent, n_hidden, act, dropout) ==
    Bind(MLP_init(n_latent, Len(wave_rest), n_hidden, act, dropout), LAMBDA m :
        IF m.out.tag = "raise" THEN m.out
        ELSE Ok([tag |-> "SpectrumDecoder", mlp |-> m.out.val,
                 n_latent |-> n_latent, wave_rest |-> wave_rest]))

\* A module applied to a batch: every sample goes through, or the call raises.
OnBatch(mlp, batch) ==
    Bind([i \in 1..Len(batch) |-> MLP_forward(mlp, batch[i])], LAMBDA r :
        IF \E i \in 1..Len(batch) : r[i].tag = "raise"
        THEN Raise("RuntimeError", "nn.Linear")
        ELSE Ok([i \in 1..Len(batch) |-> r[i].val]))

SpectrumDecoder_decode(self, s) == OnBatch(self.mlp, s)

\* Lines 180-187 of transform, z a number: the redshifted grid, the observed
\* grid, and the spectrum resampled from the one onto the other.
Resample(self, spectrum_restframe, instrument, z) ==
    LET wave_redshifted == [i \in 1..Len(self.wave_rest) |-> self.wave_rest[i] * (1 + z)]
        wave_obs == IF instrument.tag \in {"False", "None"}
                    THEN self.wave_rest ELSE instrument.wave_obs
    IN  [fn |-> "Interp1d", wave |-> wave_redshifted, in |-> spectrum_restframe,
         wave_obs |-> wave_obs,
         out |-> [b \in 1..Len(spectrum_restframe) |->
                     Interp1d(wave_redshifted, spectrum_restframe[b], wave_obs)]]

\* Lines 190-191 of transform, the instrument an instrument.
LsfStep(instrument, spectrum) ==
    IF ~IsNone(instrument.lsf)
    THEN Bind([b \in 1..Len(spectrum) |-> lsf(instrument.lsf.kernel, spectrum[b])],
              LAMBDA convolved :
                 [out |-> convolved,
                  log |-> <<[fn |-> "lsf", in |-> spectrum, out |-> convolved]>>])
    ELSE [out |-> spectrum, log |-> <<>>]

\* Lines 194-195 of transform.
CalibrationStep(instrument, wave_obs, spectrum) ==
    IF ~IsNone(instrument) /\ ~IsNone(instrument.calibration)
    THEN Bind([b \in 1..Len(spectrum) |-> calibration(wave_obs, spectrum[b])],
              LAMBDA calibrated :
                 [out |-> calibrated,
                  log |-> <<[fn |-> "calibration", wave |-> wave_obs, in |-> spectrum,
                             out |-> calibrated]>>])
    ELSE [out |-> spectrum, log |-> <<>>]

\* A plausible slip: calibration applied before the line-spread convolution.
SpectrumDecoder_transform_swapped(self, spectrum_restframe, instrument, z) ==
    IF IsNone(z)
    THEN [out |-> Raise("TypeError", "SpectrumDecoder.transform:180"), log |-> <<>>]
    ELSE
    Bind(Resample(self, spectrum_restframe, instrument, z.v), LAMBDA resampled :
        IF instrument.tag # "Instrument"
        THEN [out |-> Raise("AttributeError", "SpectrumDecoder.transform:190"),
              log |-> <<resampled>>]
        ELSE
        Bind(CalibrationStep(instrument, resampled.wave_obs, resampled.out),
             LAMBDA calibrated :
        Bind(LsfStep(instrument, calibrated.out), LAMBDA convolved :
            [out |-> Ok(convolved.out),
             log |-> <<resampled>> \o calibrated.log \o convolved.log])))

\* SpectrumDecoder.transform: out is the outcome, log the collaborators it
\* invoked, in order, each with what it was given and what it returned.
SpectrumDecoder_transform(self, spectrum_restframe, instrument, z) ==
    IF IsNone(z)
    THEN \* line 180: 1 + None
         [out |-> Raise("TypeError", "SpectrumDecoder.transform:180"), log |-> <<>>]
    ELSE
    Bind(Resample(self, spectrum_restframe, instrument, z.v), LAMBDA resampled :
        IF instrument.tag # "Instrument"
        THEN \* line 190: None and False have no attribute lsf
             [out |-> Raise("AttributeError", "SpectrumDecoder.transform:190"),
              log |-> <<resampled>>]
        ELSE
        Bind(LsfStep(instrument, resampled.out), LAMBDA convolved :
        Bind(CalibrationStep(instrument, resampled.wave_obs, convolved.out),
             LAMBDA calibrated :
            [out |-> Ok(calibrated.out),
             log |-> <<resampled>> \o convolved.log \o calibrated.log])))

\* forward after decode: line 175 on, with the test given as a truth value.
ForwardDecoded(self, s, instrument, z, d, observed) ==
    IF d.tag = "raise"
    THEN [out |-> d, log |-> <<[fn |-> "decode", in |-> s, out |-> d]>>]
    ELSE IF observed
    THEN Bind(SpectrumDecoder_transform(self, d.val, instrument, z), LAMBDA t :
            [out |-> t.out,
             log |-> <<[fn |-> "decode", in |-> s, out |-> d],
                       [fn |-> "transform", in |-> d.val, out |-> t.out]>> \o t.log])
    ELSE [out |-> d, log |-> <<[fn |-> "decode", in |-> s, out |-> d]>>]

\* A plausible slip: `and` for `or` in the test that decides on the transform.
SpectrumDecoder_forward_and(self, s, instrument, z) ==
    ForwardDecoded(self, s, instrument, z, SpectrumDecoder_decode(self, s),
                   ~IsNone(instrument) /\ ~IsNone(z))

\* SpectrumDecoder.forward: out is the outcome, log the calls it made.
SpectrumDecoder_forward(self, s, instrument, z) ==
    ForwardDecoded(self, s, instrument, z, SpectrumDecoder_decode(self, s),
                   ~IsNone(instrument) \/ ~IsNone(z))

----------------------------------------------------------------------------
(* Specification of the decoder alone *)

Redshifts == {None} \cup {Num(v) : v \in 0..MaxZ}
InstrumentArgs == {None, PyFalse} \cup Instruments

LatentsOf(n) == [1..n -> {0, 1}]
LatentBatches == UNION {{<<a, b>> : a, b \in LatentsOf(n)} : n \in 1..MaxLatent}

RestSamples == {<<2, 4, 6>>, <<4, 6, 8>>, <<0, 4, 0>>}
RestBatches == {<<a, b>> : a, b \in RestSamples}

DecHidden == {<<>>, <<MaxWidth>>}
DecActs == {None, List(<<"Identity">>)}

NewSpectrumDecoder ==
    /\ pc = "idle"
    /\ \E n_latent \in 1..MaxLatent, n_hidden \in DecHidden, act \in DecActs :
         \E r \in {SpectrumDecoder_init(WaveRest, n_latent, n_hidden, act, 0)} :
             /\ call' = [op |-> "SpectrumDecoder.__init__", n_latent |-> n_latent,
                         n_hidden |-> n_hidden, act |-> act]
             /\ ret' = r
             /\ decoder' = IF r.tag = "ok" THEN r.val ELSE decoder
    /\ calls' = <<>>
    /\ pc' = "returned"
    /\ UNCHANGED <<encoder, model, grad_enabled, graph>>

DecoderForward ==
    /\ pc = "idle"
    /\ ~IsNone(decoder)
    /\ \E s \in LatentBatches, instrument \in InstrumentArgs, z \in Redshifts :
         \E r \in {SpectrumDecoder_forward(decoder, s, instrument, z)} :
             /\ call' = [op |-> "SpectrumDecoder.forward", s |-> s,
                         instrument |-> instrument, z |-> z]
             /\ ret' = r.out
             /\ calls' = r.log
    /\ pc' = "returned"
    /\ UNCHANGED <<encoder, decoder, model, grad_enabled, graph>>

\* transform called directly; z omitted is z = 0, the default of the signature.
DecoderTransform ==
    /\ pc = "idle"
    /\ ~IsNone(decoder)
    /\ \E spectrum \in RestBatches, instrument \in InstrumentArgs, z \in Redshifts :
         \E r \in {SpectrumDecoder_transform(decoder, spectrum, instrument, z)} :
             /\ call' = [op |-> "SpectrumDecoder.transform", spectrum |-> spectrum,
                         instrument |-> instrument, z |-> z]
             /\ ret' = r.out
             /\ calls' = r.log
    /\ pc' = "returned"
    /\ UNCHANGED <<encoder, decoder, model, grad_enabled, graph>>

NextDec == NewSpectrumDecoder \/ DecoderForward \/ DecoderTransform \/ Return

SpecDec == Init /\ [][NextDec]_vars

\* C2: transform with no instrument (None or False) is a pass-through: it
\* returns a spectrum, resampled onto the rest grid with no convolution and
\* no calibration, and with z = 0 the spectrum it was given.
C2_NoInstrumentPassThrough ==
    (/\ pc = "returned" /\ call.op = "SpectrumDecoder.transform"
     /\ call.instrument.tag \in {"None", "False"}
     /\ ~IsNone(call.z)) =>
        /\ ret.tag = "ok"
        /\ \A i \in 1..Len(calls) : calls[i].fn \notin {"lsf", "calibration"}
        /\ call.z.v = 0 => ret.val = call.spectrum

\* C7: SpectrumDecoder.forward returns decode(latent) without invoking
\* transform exactly when instrument and z are both None; otherwise its
\* outcome is that of transform(decode(latent), instrument, z).
C7_ForwardDispatch ==
    (pc = "returned" /\ call.op = "SpectrumDecoder.forward") =>
        LET d == SpectrumDecoder_decode(decoder, call.s)
            transformed == \E i \in 1..Len(calls) : calls[i].fn = "transform"
        IN  d.tag = "ok" =>
              IF IsNone(call.instrument) /\ IsNone(call.z)
              THEN ~transformed /\ ret = d
              ELSE /\ transformed
                   /\ ret = SpectrumDecoder_transform(decoder, d.val, call.instrument,
                                                      call.z).out

\* z supplied, instrument absent: transform was invoked on the decoded spectrum.
C7_Witness ==
    /\ pc = "returned" /\ call.op = "SpectrumDecoder.forward"
    /\ IsNone(call.instrument) /\ ~IsNone(call.z)
    /\ Len(calls) >= 2 /\ calls[1].fn = "decode" /\ calls[2].fn = "transform"
    /\ calls[2].in = calls[1].out.val

\* C8: with an instrument and a redshift, transform resamples onto
\* instrument.wave_obs, then convolves (if and only if instrument.lsf is
\* defined, on the resampled spectrum), then calibrates (if and only if
\* instrument.calibration is defined, on wave_obs and the spectrum after the
\* convolution step); with neither the result is the resampled spectrum.
C8_TransformOrder ==
    (/\ pc = "returned" /\ call.op = "SpectrumDecoder.transform"
     /\ call.instrument.tag = "Instrument"
     /\ ~IsNone(call.z)) =>
        LET ins == call.instrument
            B == 1..Len(call.spectrum)
            shifted == [i \in 1..Len(decoder.wave_rest) |->
                            decoder.wave_rest[i] * (1 + call.z.v)]
            resampled == [b \in B |-> Interp1d(shifted, call.spectrum[b], ins.wave_obs)]
            stepLsf == [fn |-> "lsf", in |-> resampled,
                        out |-> [b \in B |-> lsf(ins.lsf.kernel, resampled[b])]]
            afterLsf == IF IsNone(ins.lsf) THEN resampled ELSE stepLsf.out
            stepCal == [fn |-> "calibration", wave |-> ins.wave_obs, in |-> afterLsf,
                        out |-> [b \in B |-> calibration(ins.wave_obs, afterLsf[b])]]
            final == IF IsNone(ins.calibration) THEN afterLsf ELSE stepCal.out
        IN  /\ calls[1].fn = "Interp1d" /\ calls[1].wave = shifted
            /\ calls[1].wave_obs = ins.wave_obs /\ calls[1].out = resampled
            /\ Tail(calls) = (IF IsNone(ins.lsf) THEN <<>> ELSE <<stepLsf>>)
                               \o (IF IsNone(ins.calibration) THEN <<>> ELSE <<stepCal>>)
            /\ ret = Ok(final)

\* Both steps ran on a spectrum that is not flat, so that their order shows.
C8_Witness ==
    /\ pc = "returned" /\ call.op = "SpectrumDecoder.transform"
    /\ call.instrument.tag = "Instrument" /\ ~IsNone(call.z)
    /\ Len(calls) = 3 /\ calls[2].fn = "lsf" /\ calls[3].fn = "calibration"
    /\ calls[3].in = calls[2].out /\ calls[2].in = calls[1].out
    /\ ret.tag = "ok" /\ ret.val = calls[3].out /\ ret.val # calls[1].out

----------------------------------------------------------------------------
(* SpectrumEncoder *)

filters == <<128, 256, 512>>
EncoderHidden == <<128, 64, 32>>

\* The stand-in for the convolutions and the attention pooling of lines
\* 109-119 on one sample: a vector of n_feature values computed from x.
Pool(x, n_feature) == [j \in 1..n_feature |-> IF j = 1 THEN SumSeq(x) % 2 ELSE 0]

\* Python's ~ on a bool: ~True is -2 and ~False is -1.
Invert(b) == -(IF b THEN 1 ELSE 0) - 1
Truthy(n) == n # 0

SpectrumEncoder_init(instrument, n_latent, n_hidden, act, n_aux, dropout) ==
    LET n_feature == filters[Len(filters)] \div 2
        act1 == IF IsNone(act)
                THEN List([i \in 1..Len(n_hidden) |-> "PReLU"] \o <<"Identity">>)
                ELSE act
    IN  Bind(MLP_init(n_feature + n_aux, n_latent, n_hidden, act1, dropout), LAMBDA m :
            IF m.out.tag = "raise" THEN m.out
            ELSE Ok([tag |-> "SpectrumEncoder", instrument |-> instrument,
                     n_latent |-> n_latent, n_aux |-> n_aux, n_feature |-> n_feature,
                     mlp |-> m.out.val, training |-> TRUE, _attention_grad |-> None]))

\* Lines 118-125 of forward: the pooled vectors, the auxiliary features
\* joined to them, the dense block.
PoolAndProject(self, x, aux) ==
    LET joined == aux.tag # "None" /\ aux.tag # "False"
    IN  IF joined /\ Len(aux.val) # Len(x)
        THEN [out |-> Raise("RuntimeError", "torch.cat"),
              log |-> <<[fn |-> "cat", aux |-> aux.val]>>]
        ELSE
        Bind([b \in 1..Len(x) |->
                 IF joined THEN Pool(x[b], self.n_feature) \o aux.val[b]
                 ELSE Pool(x[b], self.n_feature)],
             LAMBDA v :
        Bind(OnBatch(self.mlp, v), LAMBDA r :
            [out |-> r,
             log |-> (IF joined THEN <<[fn |-> "cat", aux |-> aux.val]>> ELSE <<>>)
                       \o <<[fn |-> "mlp", width |-> Len(v[1]), out |-> r]>>]))

\* forward with the test of line 115 given as a truth value.
ForwardHooked(self, x, aux, requires_grad, hooked) ==
    Bind(PoolAndProject(self, x, aux), LAMBDA p :
        [out |-> p.out,
         log |-> (IF hooked
                  THEN <<[fn |-> "register_hook", training |-> self.training]>>
                  ELSE <<>>) \o p.log,
         graph |-> IF requires_grad /\ p.out.tag = "ok"
                   THEN [tag |-> "tensor", hooks |-> IF hooked THEN 1 ELSE 0,
                         training |-> self.training]
                   ELSE None])

\* SpectrumEncoder.forward on a batch, with a.requires_grad given: out is the
\* outcome, log what it invoked, graph the attention tensor left for backward.
SpectrumEncoder_forward(self, x, aux, requires_grad) ==
    ForwardHooked(self, x, aux, requires_grad,
                  Truthy(Invert(self.training)) /\ requires_grad = TRUE)

\* SpectrumEncoder._attention_hook
SpectrumEncoder_attention_hook(self, grad) == [self EXCEPT !._attention_grad = grad]

\* SpectrumEncoder.attention_grad
SpectrumEncoder_attention_grad(self) == self._attention_grad

----------------------------------------------------------------------------
(* Specification of the encoder alone *)

EncInstruments == {i \in Instruments : i.wave_obs = <<2, 4, 6>>}

ObsSamples == {<<2, 4, 6>>, <<4, 6, 8>>, <<1, 0, 3>>}
ObsBatches == {<<a, b>> : a \in {<<2, 4, 6>>, <<1, 0, 3>>}, b \in ObsSamples}

AuxOf(n) == [1..n -> {0, 1}]
\* None, False, a row of features for each of the two samples, and a
\* single row, which torch.cat refuses.
AuxArgs == {None, PyFalse}
              \cup UNION {{List(<<a, b>>) : a, b \in AuxOf(n)} : n \in 1..MaxAux}
              \cup {List(<<[i \in 1..MaxAux |-> 1]>>)}

NewSpectrumEncoder ==
    /\ pc = "idle"
    /\ \E instrument \in EncInstruments, n_latent \in 1..MaxLatent, n_aux \in 0..MaxAux :
         \E r \in {SpectrumEncoder_init(instrument, n_latent, EncoderHidden, None, n_aux, 0)} :
             /\ call' = [op |-> "SpectrumEncoder.__init__", n_latent |-> n_latent,
                         n_aux |-> n_aux]
             /\ ret' = r
             /\ encoder' = IF r.tag = "ok" THEN r.val ELSE encoder
    /\ calls' = <<>>
    /\ graph' = None
    /\ pc' = "returned"
    /\ UNCHANGED <<decoder, model, grad_enabled>>

\* encoder.train(mode) / encoder.eval(), inherited from nn.Module
SetTraining ==
    /\ pc = "idle"
    /\ ~IsNone(encoder)
    /\ \E mode \in BOOLEAN : encoder' = [encoder EXCEPT !.training = mode]
    /\ UNCHANGED <<decoder, model, grad_enabled, graph, call, ret, calls, pc>>

\* torch.set_grad_enabled(mode)
SetGradEnabled ==
    /\ pc = "idle"
    /\ \E mode \in BOOLEAN : grad_enabled' = mode
    /\ UNCHANGED <<encoder, decoder, model, graph, call, ret, calls, pc>>

EncoderForward ==
    /\ pc = "idle"
    /\ ~IsNone(encoder)
    /\ \E x \in ObsBatches, aux \in AuxArgs :
         \E r \in {SpectrumEncoder_forward(encoder, x, aux, grad_enabled)} :
             /\ call' = [op |-> "SpectrumEncoder.forward", x |-> x, aux |-> aux]
             /\ ret' = r.out
             /\ calls' = r.log
             /\ graph' = r.graph
    /\ pc' = "returned"
    /\ UNCHANGED <<encoder, decoder, model, grad_enabled>>

\* backward() from a scalar computed from the latent: the gradient reaches
\* the attention tensor and its hooks run.
Backward ==
    /\ pc = "idle"
    /\ ~IsNone(encoder)
    /\ ~IsNone(graph)
    /\ \E grad \in {Num(1), Num(2)} :
         /\ encoder' = IF graph.hooks > 0
                       THEN SpectrumEncoder_attention_hook(encoder, grad)
                       ELSE encoder
         /\ call' = [op |-> "backward", grad |-> grad,
                     forward_training |-> graph.training,
                     training |-> encoder.training,
                     before |-> SpectrumEncoder_attention_grad(encoder)]
    /\ ret' = Ok(<<>>)
    /\ calls' = <<>>
    /\ graph' = None
    /\ pc' = "returned"
    /\ UNCHANGED <<decoder, model, grad_enabled>>

NextEnc ==
    \/ NewSpectrumEncoder
    \/ SetTraining
    \/ SetGradEnabled
    \/ EncoderForward
    \/ Backward
    \/ Return

SpecEnc == Init /\ [][NextEnc]_vars

\* C3: auxiliary features are optional for SpectrumEncoder.forward, whatever
\* n_aux the encoder was built with: with aux None or False nothing is
\* concatenated, the pooled vector of n_feature values alone goes through the
\* dense block and a latent of length n_latent comes out; with aux supplied
\* it is concatenated before the dense block.
C3_AuxOptional ==
    (pc = "returned" /\ call.op = "SpectrumEncoder.forward") =>
        LET dense == calls[Len(calls)]
            joined == \E i \in 1..Len(calls) : calls[i].fn = "cat"
        IN  IF call.aux.tag \in {"None", "False"}
            THEN /\ ~joined
                 /\ dense.fn = "mlp" /\ dense.width = encoder.n_feature
                 /\ ret.tag = "ok"
                 /\ \A b \in 1..Len(ret.val) : Len(ret.val[b]) = encoder.n_latent
            ELSE /\ joined
                 /\ Len(call.aux.val) = Len(call.x) =>
                      /\ dense.fn = "mlp"
                      /\ dense.width = encoder.n_feature + Len(call.aux.val[1])

\* C4: the gradient hook is registered on the attention tensor only when the
\* encoder is in evaluation mode and the tensor requires grad; a forward and
\* a backward both made in training mode leave attention_grad as it was.
C4_HookOnlyInEval ==
    /\ (pc = "returned" /\ call.op = "SpectrumEncoder.forward") =>
          \A i \in 1..Len(calls) :
              calls[i].fn = "register_hook" => (~calls[i].training /\ grad_enabled)
    /\ (pc = "returned" /\ call.op = "backward"
            /\ call.forward_training /\ call.training) =>
          SpectrumEncoder_attention_grad(encoder) = call.before

----------------------------------------------------------------------------
(* BaseAutoencoder and SpectrumAutoencoder *)

RECURSIVE GCD(_, _)
GCD(a, b) == IF b = 0 THEN a ELSE GCD(b, a % b)

\* The float 0 / 0 of a division by x.shape[1] = 0.
NaN == [num |-> 0, den |-> 0]

\* The rational n / d (d >= 0) in lowest terms; 0 / 0 is nan.
Frac(n, d) ==
    IF d = 0 THEN NaN
    ELSE LET g == GCD(IF n < 0 THEN -n ELSE n, d) IN [num |-> n \div g, den |-> d \div g]

FracAdd(a, b) ==
    IF a = NaN \/ b = NaN THEN NaN
    ELSE Frac(a.num * b.den + b.num * a.den, a.den * b.den)

\* torch.sum of a vector of rationals
RECURSIVE FracSum(_)
FracSum(s) == IF s = <<>> THEN Frac(0, 1) ELSE FracAdd(Head(s), FracSum(Tail(s)))

Unattached == [tag |-> "BaseAutoencoder", encoder |-> None, decoder |-> None]

\* A plausible slip: the sub-components are attached before the check.
BaseAutoencoder_init_attach_first(enc, dec) ==
    LET self == [tag |-> "BaseAutoencoder", encoder |-> enc, decoder |-> dec]
    IN  IF enc.n_latent # dec.n_latent
        THEN [out |-> Raise("AssertionError", "BaseAutoencoder.__init__"), self |-> self]
        ELSE [out |-> Ok(self), self |-> self]

\* BaseAutoencoder.__init__: out is the outcome, self the object as it is
\* when the constructor ends.
BaseAutoencoder_init(enc, dec) ==
    IF enc.n_latent # dec.n_latent
    THEN [out |-> Raise("AssertionError", "BaseAutoencoder.__init__"), self |-> Unattached]
    ELSE LET self == [tag |-> "BaseAutoencoder", encoder |-> enc, decoder |-> dec]
         IN  [out |-> Ok(self), self |-> self]

\* SpectrumAutoencoder.__init__
SpectrumAutoencoder_init(instrument, wave_rest, n_latent, n_aux, n_hidden, act) ==
    Bind(SpectrumEncoder_init(instrument, n_latent, EncoderHidden, None, n_aux, 0),
         LAMBDA enc :
    Bind(SpectrumDecoder_init(wave_rest, n_latent, n_hidden, act, 0), LAMBDA dec :
        IF enc.tag = "raise" THEN [out |-> enc, self |-> None]
        ELSE IF dec.tag = "raise" THEN [out |-> dec, self |-> None]
        ELSE BaseAutoencoder_init(enc.val, dec.val)))

\* BaseAutoencoder.encode
BaseAutoencoder_encode(self, x, aux, requires_grad) ==
    SpectrumEncoder_forward(self.encoder, x, aux, requires_grad)

\* BaseAutoencoder.decode: the decoder called with a latent alone
BaseAutoencoder_decode(self, x) == SpectrumDecoder_forward(self.decoder, x, None, None).out

\* Lines 223-226 of _forward: the latent, supplied or encoded.
Latent(self, x, s, aux, requires_grad) ==
    IF IsNone(s)
    THEN Bind(BaseAutoencoder_encode(self, x, aux, requires_grad), LAMBDA e :
            [out |-> e.out, graph |-> e.graph, encoded |-> TRUE,
             log |-> <<[fn |-> "encode", in |-> x, aux |-> aux, out |-> e.out]>>])
    ELSE [out |-> Ok(s.val), graph |-> None, encoded |-> FALSE, log |-> <<>>]

\* Lines 230-233 of _forward, with the latent and the instrument settled.
DecodeTransform(self, e, instrument, z) ==
    IF e.out.tag = "raise" THEN e
    ELSE
    Bind(BaseAutoencoder_decode(self, e.out.val), LAMBDA spectrum_restframe :
        IF spectrum_restframe.tag = "raise"
        THEN [e EXCEPT !.out = spectrum_restframe,
                       !.log = Append(@, [fn |-> "decode", in |-> e.out.val,
                                          out |-> spectrum_restframe])]
        ELSE
        Bind(SpectrumDecoder_transform(self.decoder, spectrum_restframe.val,
                                       instrument, z).out,
             LAMBDA spectrum_observed :
            [e EXCEPT !.out = IF spectrum_observed.tag = "raise" THEN spectrum_observed
                              ELSE Ok(<<e.out.val, spectrum_restframe.val,
                                        spectrum_observed.val>>),
                      !.log = @ \o <<[fn |-> "decode", in |-> e.out.val,
                                      out |-> spectrum_restframe],
                                     [fn |-> "transform",
                                      in |-> spectrum_restframe.val,
                                      instrument |-> instrument, z |-> z,
                                      out |-> spectrum_observed]>>]))

\* A plausible slip: the encoder's instrument always wins over the override.
BaseAutoencoder__forward_own_instrument(self, x, w, instrument, z, s, aux, requires_grad) ==
    DecodeTransform(self, Latent(self, x, s, aux, requires_grad),
                    self.encoder.instrument, z)

\* BaseAutoencoder._forward: out is the outcome (the triple, or the exception),
\* log the calls it made, graph the attention tensor of the encoder call, if
\* one was made (encoded).
BaseAutoencoder__forward(self, x, w, instrument, z, s, aux, requires_grad) ==
    DecodeTransform(self, Latent(self, x, s, aux, requires_grad),
                    IF IsNone(instrument) THEN self.encoder.instrument ELSE instrument,
                    z)

\* BaseAutoencoder.forward: the observed-frame spectrum of _forward's triple
BaseAutoencoder_forward(self, x, w, instrument, z, s, aux, requires_grad) ==
    Bind(BaseAutoencoder__forward(self, x, w, instrument, z, s, aux, requires_grad),
         LAMBDA f :
            [f EXCEPT !.out = IF f.out.tag = "raise" THEN f.out ELSE Ok(f.out.val[3])])

\* The shape of a two-dimensional tensor (a batch of at least one sample).
Shape(t) == <<Len(t), Len(t[1])>>

\* Two sizes of one dimension broadcast when they are equal or one is 1.
Broadcastable(a, b) == a = b \/ a = 1 \/ b = 1

\* The shape two shapes broadcast to, <<>> when they do not.
Broadcast(sa, sb) ==
    IF Broadcastable(sa[1], sb[1]) /\ Broadcastable(sa[2], sb[2])
    THEN <<IF sa[1] = 1 THEN sb[1] ELSE sa[1], IF sa[2] = 1 THEN sb[2] ELSE sa[2]>>
    ELSE <<>>

\* The shape of w * (x - spectrum_observed).pow(2) on line 250: the
\* difference broadcasts first, the weights against it.
LossShape(x, w, spectrum_observed) ==
    Bind(Broadcast(Shape(x), Shape(spectrum_observed)), LAMBDA d :
        IF d = <<>> THEN <<>> ELSE Broadcast(Shape(w), d))

\* The element (b, j) of a tensor broadcast to a larger shape.
At(t, b, j) == t[IF Len(t) = 1 THEN 1 ELSE b][IF Len(t[1]) = 1 THEN 1 ELSE j]

\* The sum over the n bins of sample b of w * (x - spectrum_observed)^2:
\* twice the numerator of line 250.
Deviation(x, w, spectrum_observed, b, n) ==
    SumSeq([j \in 1..n |->
              At(w, b, j) * (At(x, b, j) - At(spectrum_observed, b, j))
                          * (At(x, b, j) - At(spectrum_observed, b, j))])

\* A plausible slip: divide by D, the number of bins of non-zero weight.
BaseAutoencoder__loss_by_valid_bins(x, w, spectrum_observed, individual) ==
    Bind(LossShape(x, w, spectrum_observed), LAMBDA shape :
        IF shape = <<>> THEN Raise("RuntimeError", "BaseAutoencoder._loss:250")
        ELSE
        LET D(b) == Cardinality({j \in 1..shape[2] : At(w, b, j) # 0})
        IN  Bind([b \in 1..shape[1] |->
                     IF D(b) = 0 THEN Frac(0, 1)
                     ELSE Frac(Deviation(x, w, spectrum_observed, b, shape[2]),
                               2 * D(b))],
                 LAMBDA loss_ind :
                    IF individual THEN Ok(loss_ind) ELSE Ok(FracSum(loss_ind))))

\* BaseAutoencoder._loss, in exact rationals: the three tensors broadcast
\* to one shape (RuntimeError when they do not); per sample of that shape,
\* the sum over its bins of 0.5 * w * (x - spectrum_observed)^2 divided by
\* x.shape[1].
BaseAutoencoder__loss(x, w, spectrum_observed, individual) ==
    Bind(LossShape(x, w, spectrum_observed), LAMBDA shape :
        IF shape = <<>> THEN Raise("RuntimeError", "BaseAutoencoder._loss:250")
        ELSE
        Bind([b \in 1..shape[1] |->
                 Frac(Deviation(x, w, spectrum_observed, b, shape[2]),
                      2 * Shape(x)[2])],
             LAMBDA loss_ind :
                IF individual THEN Ok(loss_ind) ELSE Ok(FracSum(loss_ind))))

\* BaseAutoencoder.loss
BaseAutoencoder_loss(self, x, w, instrument, z, s, aux, individual, requires_grad) ==
    Bind(BaseAutoencoder_forward(self, x, None, instrument, z, s, aux, requires_grad),
         LAMBDA f :
            IF f.out.tag = "raise" THEN f
            ELSE [f EXCEPT !.out = BaseAutoencoder__loss(x, w, f.out.val, individual)])

----------------------------------------------------------------------------
(* Specification of the autoencoder *)

Plain == [tag |-> "Instrument", wave_obs |-> <<2, 4, 6>>, lsf |-> None,
          calibration |-> None]
Full == [tag |-> "Instrument", wave_obs |-> <<2, 4, 6>>, lsf |-> Lsf,
         calibration |-> Calibration]
Other == [tag |-> "Instrument", wave_obs |-> <<2, 3, 4>>, lsf |-> Lsf,
          calibration |-> None]

AttachedInstruments == {Plain, Full}
Overrides == {None, PyFalse, Plain, Other}

EncoderObjs ==
    {SpectrumEncoder_init(i, n, EncoderHidden, None, a, 0).val :
        i \in AttachedInstruments, n \in 1..MaxLatent, a \in 0..MaxAux}
DecoderObjs ==
    {SpectrumDecoder_init(WaveRest, n, <<>>, None, 0).val : n \in 1..MaxLatent}

\* Batches of two samples, and one of a single sample.
XBatches == {<<<<2, 4, 6>>, <<4, 6, 8>>>>, <<<<1, 0, 3>>, <<2, 4, 6>>>>,
             <<<<4, 6, 8>>, <<4, 6, 8>>>>, <<<<4, 6, 8>>>>}
\* Weights per bin, per sample (2 x 1), per bin for all samples (1 x 3),
\* and of a width that fits no spectrum (2 x 2).
WBatches == {<<<<1, 1, 1>>, <<1, 1, 1>>>>, <<<<1, 0, 2>>, <<0, 0, 0>>>>,
             <<<<2>>, <<1>>>>, <<<<1, 0, 2>>>>, <<<<1, 1>>, <<1, 1>>>>}
SArgs == {None} \cup {List(<<[i \in 1..n |-> 0], [i \in 1..n |-> IF i = 1 THEN 1 ELSE 0]>>) :
                         n \in 1..MaxLatent}
AEAuxArgs == {None, PyFalse}
                \cup {List(<<[i \in 1..n |-> 1], [i \in 1..n |-> 0]>>) : n \in 1..MaxAux}

NewBaseAutoencoder ==
    /\ pc = "idle"
    /\ \E enc \in EncoderObjs, dec \in DecoderObjs :
         \E r \in {BaseAutoencoder_init(enc, dec)} :
             /\ call' = [op |-> "BaseAutoencoder.__init__", encoder |-> enc,
                         decoder |-> dec]
             /\ ret' = r.out
             /\ model' = r.self
    /\ calls' = <<>>
    /\ pc' = "returned"
    /\ UNCHANGED <<encoder, decoder, grad_enabled, graph>>

NewSpectrumAutoencoder ==
    /\ pc = "idle"
    /\ \E instrument \in AttachedInstruments, n_latent \in 1..MaxLatent,
          n_aux \in 0..MaxAux, act \in {None, List(<<>>)} :
         \E r \in {SpectrumAutoencoder_init(instrument, WaveRest, n_latent, n_aux,
                                           <<>>, act)} :
             /\ call' = [op |-> "SpectrumAutoencoder.__init__", n_latent |-> n_latent,
                         n_aux |-> n_aux, act |-> act]
             /\ ret' = r.out
             /\ model' = r.self
    /\ calls' = <<>>
    /\ pc' = "returned"
    /\ UNCHANGED <<encoder, decoder, grad_enabled, graph>>

Attached == model.tag = "BaseAutoencoder" /\ ~IsNone(model.encoder)

AutoencoderForward ==
    /\ pc = "idle"
    /\ Attached
    /\ \E private \in BOOLEAN, x \in XBatches, instrument \in Overrides, z \in Redshifts,
          s \in SArgs, aux \in AEAuxArgs :
         \E r \in {IF private
                  THEN BaseAutoencoder__forward(model, x, None, instrument, z, s, aux,
                                                grad_enabled)
                  ELSE BaseAutoencoder_forward(model, x, None, instrument, z, s, aux,
                                               grad_enabled)} :
             /\ call' = [op |-> IF private THEN "BaseAutoencoder._forward"
                                ELSE "BaseAutoencoder.forward",
                         x |-> x, instrument |-> instrument, z |-> z, s |-> s,
                         aux |-> aux]
             /\ ret' = r.out
             /\ calls' = r.log
             /\ graph' = IF r.encoded THEN r.graph ELSE graph
    /\ pc' = "returned"
    /\ UNCHANGED <<encoder, decoder, model, grad_enabled>>

AutoencoderLoss ==
    /\ pc = "idle"
    /\ Attached
    /\ \E x \in XBatches, w \in WBatches, instrument \in Overrides, z \in Redshifts,
          s \in SArgs, aux \in AEAuxArgs, individual \in BOOLEAN :
         \E r \in {BaseAutoencoder_loss(model, x, w, instrument, z, s, aux, individual,
                                       grad_enabled)} :
             /\ call' = [op |-> "BaseAutoencoder.loss", x |-> x, w |-> w,
                         instrument |-> instrument, z |-> z, s |-> s, aux |-> aux,
                         individual |-> individual]
             /\ ret' = r.out
             /\ calls' = r.log
             /\ graph' = IF r.encoded THEN r.graph ELSE graph
    /\ pc' = "returned"
    /\ UNCHANGED <<encoder, decoder, model, grad_enabled>>

NextAE ==
    \/ NewBaseAutoencoder
    \/ NewSpectrumAutoencoder
    \/ AutoencoderForward
    \/ AutoencoderLoss
    \/ Return

SpecAE == Init /\ [][NextAE]_vars

\* The optional inputs that are supplied fit the model: a latent of width
\* n_latent, auxiliary features of width n_aux (none for n_aux = 0) for
\* every sample of x, an instrument override that is an instrument, and
\* weights that broadcast against x.
WellShaped ==
    /\ call.instrument.tag # "False"
    /\ ~IsNone(call.s) => Len(call.s.val[1]) = model.encoder.n_latent
    /\ IsNone(call.s) =>
         IF call.aux.tag = "list"
         THEN /\ Len(call.aux.val[1]) = model.encoder.n_aux
              /\ Len(call.aux.val) = Len(call.x)
         ELSE model.encoder.n_aux = 0
    /\ call.op = "BaseAutoencoder.loss" =>
         /\ Broadcast(Shape(call.w), Shape(call.x)) # <<>>

\* C1: forward and loss run to completion and return the reconstruction or
\* the loss for every combination of the instrument override, the redshift z
\* and the precomputed latent s being supplied or omitted.
C1_OptionalInputsComplete ==
    (/\ pc = "returned"
     /\ call.op \in {"BaseAutoencoder.forward", "BaseAutoencoder.loss"}
     /\ WellShaped) =>
        ret.tag = "ok"

\* C5: loss returns, for each sample of x, the weights and the reconstruction
\* broadcast to one shape, the sum over all bins of
\* 0.5 * w * (x - reconstruction)^2 divided by the number of bins of x,
\* whatever the weights, so that a bin of weight 0 adds nothing to the sum
\* and still counts in the divisor; the vector with individual, else its sum
\* over the samples; and 0 throughout when the reconstruction equals the
\* input.
C5_LossValue ==
    (pc = "returned" /\ call.op = "BaseAutoencoder.loss" /\ ret.tag = "ok") =>
        LET rec == calls[Len(calls)].out.val
            L == Len(call.x[1])
            Max(S) == CHOOSE m \in S : \A n \in S : n <= m
            B == 1..Max({Len(call.x), Len(call.w), Len(rec)})
            J == 1..Max({Len(call.x[1]), Len(call.w[1]), Len(rec[1])})
            el(t, b, j) == t[IF Len(t) = 1 THEN 1 ELSE b][IF Len(t[1]) = 1 THEN 1 ELSE j]
            sq(b, j) == (el(call.x, b, j) - el(rec, b, j))
                            * (el(call.x, b, j) - el(rec, b, j))
            twice(b) == SumSeq([j \in J |->
                                  IF el(call.w, b, j) = 0 THEN 0
                                  ELSE el(call.w, b, j) * sq(b, j)])
            \* n / d is the value v
            Is(v, n, d) == v.num * d = n * v.den /\ v.den > 0
        IN  /\ call.individual =>
                /\ DOMAIN ret.val = B
                /\ \A b \in B : Is(ret.val[b], twice(b), 2 * L)
                /\ rec = call.x => \A b \in B : ret.val[b].num = 0
            /\ ~call.individual =>
                /\ Is(ret.val, SumSeq([b \in B |-> twice(b)]), 2 * L)
                /\ rec = call.x => ret.val.num = 0

\* A per-sample loss that is not 0, of a sample with a masked bin that
\* deviates and so counts in the divisor alone.
C5_Witness ==
    /\ pc = "returned" /\ call.op = "BaseAutoencoder.loss" /\ ret.tag = "ok"
    /\ call.individual
    /\ Len(call.w[1]) = 3 /\ Len(call.x[1]) = 3
    /\ \E j \in 1..3 :
         /\ call.w[1][j] = 0
         /\ call.x[1][j] # calls[Len(calls)].out.val[1][j]
    /\ ret.val[1].num # 0

\* C6: _forward returns the supplied latent without invoking the encoder,
\* or else encode(x, aux); hands transform the supplied instrument, or else
\* the encoder's; runs decode before transform; and returns the whole triple
\* (latent, rest-frame, observed-frame) or raises, with no result.
C6_ForwardTriple ==
    (pc = "returned" /\ call.op = "BaseAutoencoder._forward") =>
        LET n == Len(calls)
            Idx(f) == {i \in 1..n : calls[i].fn = f}
        IN  /\ IF IsNone(call.s)
               THEN /\ calls[1].fn = "encode"
                    /\ calls[1].in = call.x /\ calls[1].aux = call.aux
                    /\ ret.tag = "ok" => ret.val[1] = calls[1].out.val
               ELSE /\ Idx("encode") = {}
                    /\ ret.tag = "ok" => ret.val[1] = call.s.val
            /\ \A i \in Idx("transform") :
                 /\ calls[i].instrument =
                      (IF IsNone(call.instrument) THEN model.encoder.instrument
                       ELSE call.instrument)
                 /\ calls[i].z = call.z
                 /\ i > 1 /\ calls[i - 1].fn = "decode"
                 /\ calls[i].in = calls[i - 1].out.val
            /\ IF ret.tag = "ok"
               THEN /\ Len(ret.val) = 3
                    /\ calls[n].fn = "transform" /\ calls[n - 1].fn = "decode"
                    /\ ret.val[2] = calls[n - 1].out.val
                    /\ ret.val[3] = calls[n].out.val
               ELSE DOMAIN ret = {"tag", "exc", "at"}

\* A whole triple, the latent supplied, the instrument overridden.
C6_Witness ==
    /\ pc = "returned" /\ call.op = "BaseAutoencoder._forward"
    /\ ~IsNone(call.s) /\ call.instrument = Other
    /\ call.instrument # model.encoder.instrument
    /\ ret.tag = "ok" /\ ret.val[1] = call.s.val
    /\ Len(calls) = 2

\* C10: BaseAutoencoder.__init__ fails whenever the latent dimensions of the
\* encoder and the decoder differ, with neither attached; a constructed
\* autoencoder has equal latent dimensions; SpectrumAutoencoder.__init__
\* never fails that check.
C10_LatentDimensionsAgree ==
    /\ (pc = "returned" /\ call.op = "BaseAutoencoder.__init__") =>
          IF call.encoder.n_latent # call.decoder.n_latent
          THEN /\ ret = Raise("AssertionError", "BaseAutoencoder.__init__")
               /\ IsNone(model.encoder) /\ IsNone(model.decoder)
          ELSE /\ ret.tag = "ok" /\ ret.val = model
               /\ model.encoder = call.encoder /\ model.decoder = call.decoder
    /\ (model.tag = "BaseAutoencoder" /\ ~IsNone(model.encoder)) =>
          /\ ~IsNone(model.decoder)
          /\ model.encoder.n_latent = model.decoder.n_latent
    /\ (pc = "returned" /\ call.op = "SpectrumAutoencoder.__init__") =>
          ret # Raise("AssertionError", "BaseAutoencoder.__init__")

\* A refused pair: encoder and decoder of different latent dimensions.
C10_Witness ==
    /\ pc = "returned" /\ call.op = "BaseAutoencoder.__init__"
    /\ call.encoder.n_latent # call.decoder.n_latent
    /\ ret.tag = "raise" /\ IsNone(model.encoder)

====
